---- MODULE Spec2Model ----
(***************************************************************************)
(* Model of o2::mergers::FullHistoryMerger                                 *)
(* (Utilities/Mergers/src/FullHistoryMerger.cxx).                          *)
(*                                                                         *)
(* The merger is a single-threaded DPL task.  Its handlers are run(),      *)
(* endOfStream() and the Start callback registered in init().  A handler   *)
(* is modelled by the sequence of its steps, with pc holding the position  *)
(* inside the handler; no other handler can start while pc is inside one.  *)
(* After endOfStream() the device is stopped until the next Start.         *)
(* An exception that leaves a handler ends the device (pc = "crashed").    *)
(***************************************************************************)
EXTENDS Integers, Sequences, FiniteSets, TLC

(* ---------------- bounds of the model ---------------- *)

\* largest cycle count of the NCycles policy
MaxCycles == 2
\* largest number of updates taken in between two clear()s
MaxUpdates == 4
\* length of the collections sent by the producers
VecLen == 2

(* ---------------- inputs ---------------- *)

\* DataHeader fields that identify a producer
Headers ==
  { [dataOrigin |-> "TST", dataDescription |-> "HISTO", subSpecification |-> 0],
    [dataOrigin |-> "TST", dataDescription |-> "HISTO", subSpecification |-> 1],
    [dataOrigin |-> "TPC", dataDescription |-> "HISTO", subSpecification |-> 0] }

\* serialized payloads: the kind of object the bytes hold and its content
Payloads ==
  { [kind |-> "TObject", val |-> 1],
    [kind |-> "TObject", val |-> 2],
    [kind |-> "MergeInterface", val |-> 1],
    [kind |-> "Vector", val |-> [i \in 1..VecLen |-> 1]],
    [kind |-> "Undecodable", val |-> 0] }

\* a DataRef of a data input
DataRefs == { [dh |-> h, payload |-> p] : h \in Headers, p \in Payloads }

\* mConfig.mergedObjectTimespan
Timespans ==
  { [value |-> "NCycles", param |-> k] : k \in 1..MaxCycles }
    \cup { [value |-> "LastDifference", param |-> 0] }

(* ---------------- values ---------------- *)

\* the empty std::string of mFirstObjectSerialized.first
NoSource == <<>>
\* nullptr of mFirstObjectSerialized.second.payload
Nullptr == [kind |-> "nullptr", val |-> 0]
\* std::monostate alternative of ObjectStore
Monostate == [alt |-> "monostate", val |-> 0]

\* two serialized payloads hold the same bytes
SamePayload(a, b) == a.kind = b.kind /\ a.val = b.val
\* two ObjectStores hold the same alternative with the same content
SameObject(a, b) == a.alt = b.alt /\ a.val = b.val

\* sourceID = dataOrigin + "/" + dataDescription + "/" + subSpecification
SourceID(dh) == <<dh.dataOrigin, dh.dataDescription, dh.subSpecification>>

Sources == { SourceID(h) : h \in Headers }

VARIABLES
  mConfig,                 \* mConfig.mergedObjectTimespan
  mFirstObjectSerialized,  \* [first: sourceID, payload: serialized bytes]
  mCache,                  \* sourceID -> ObjectStore
  mMergedObject,           \* ObjectStore
  mCyclesSinceReset,
  mObjectsMerged,
  mUpdatesReceived,
  mTotalObjectsMerged,
  mTotalUpdatesReceived,
  pc,                      \* position inside the running handler
  timerValid,              \* ctx.inputs().isValid("timer-publish") of this run()
  outputs,                 \* objects handed to the DataAllocator by this handler
  metrics,                 \* metrics sent to mCollector by this handler
  \* history variables
  sent,                    \* per source: updates taken since the last clear (0,1,2=more)
  latest,                  \* per source: last payload taken since the last clear
  overwritten,             \* slots where an update replaced a different payload
  tickPublishes,           \* merged objects published by run() since the last clear
  cycleSent,               \* sources whose update was taken since the last publish()
  taken,                   \* updates taken since the last clear
  firstSender,             \* source of the first update taken since the last clear
  lastMerge,               \* the last mergeCache() since the last update or clear
  lastOp,                  \* name of the last step
  pre                      \* for a clear(): the state it was called in

counters == <<mCyclesSinceReset, mObjectsMerged, mUpdatesReceived,
              mTotalObjectsMerged, mTotalUpdatesReceived>>
store == <<mFirstObjectSerialized, mCache>>
ghosts == <<cycleSent, taken, firstSender, lastMerge>>
history == <<sent, latest, overwritten, tickPublishes, ghosts, lastOp, pre>>
vars == <<mConfig, mFirstObjectSerialized, mCache, mMergedObject, counters,
          pc, timerValid, outputs, metrics, history>>

NoPre == [called |-> FALSE]
NoMerge == [done |-> FALSE, merged |-> Monostate, objectsMerged |-> 0]

(* ---------------- helpers of the code ---------------- *)

\* object_store_helpers::extractObjectFrom: throws when the bytes do not decode
ExtractThrows(payload) == payload.kind = "Undecodable"

\* object_store_helpers::extractObjectFrom: the deserialized ObjectStore
extractObjectFrom(payload) ==
  [alt |-> CASE payload.kind = "TObject" -> "TObjectPtr"
             [] payload.kind = "MergeInterface" -> "MergeInterfacePtr"
             [] payload.kind = "Vector" -> "VectorOfTObjectPtrs"
             [] OTHER -> "monostate",
   val |-> payload.val]

\* algorithm::merge(TObject*, TObject*), MergeInterface::merge,
\* algorithm::merge(vector, vector): additive combination into the target
MergeObjects(target, other) ==
  IF target.alt = "VectorOfTObjectPtrs"
    THEN [alt |-> target.alt,
          val |-> [i \in 1..Len(target.val) |-> target.val[i] + other.val[i]]]
    ELSE [alt |-> target.alt, val |-> target.val + other.val]

\* object_store_helpers::snapshot: the results the handoff can report;
\* false when the variant holds no object or when the handoff fails
snapshot(obj) == IF obj.alt = "monostate" THEN {FALSE} ELSE BOOLEAN

(* ---------------- FullHistoryMerger ---------------- *)

EmptyCache == [s \in {} |-> Monostate]
NoTemplate == [first |-> NoSource, payload |-> Nullptr]
NothingSent == [s \in Sources |-> 0]
NothingLatest == [s \in Sources |-> Nullptr]

Init ==
  /\ mConfig \in Timespans
  /\ mFirstObjectSerialized = NoTemplate
  /\ mCache = EmptyCache
  /\ mMergedObject = Monostate
  /\ mCyclesSinceReset = 0
  /\ mObjectsMerged = 0
  /\ mUpdatesReceived = 0
  /\ mTotalObjectsMerged = 0
  /\ mTotalUpdatesReceived = 0
  /\ pc = "idle"
  /\ timerValid = FALSE
  /\ outputs = <<>>
  /\ metrics = <<>>
  /\ sent = NothingSent
  /\ latest = NothingLatest
  /\ overwritten = {}
  /\ tickPublishes = 0
  /\ cycleSent = {}
  /\ taken = 0
  /\ firstSender = NoSource
  /\ lastMerge = NoMerge
  /\ lastOp = "init"
  /\ pre = NoPre

\* clear() that leaves the cache as it is
clearKeepsCache ==
  /\ mFirstObjectSerialized' = NoTemplate
  /\ mMergedObject' = Monostate
  /\ UNCHANGED mCache
  /\ mCyclesSinceReset' = 0
  /\ mTotalObjectsMerged' = 0
  /\ mObjectsMerged' = 0
  /\ mTotalUpdatesReceived' = 0
  /\ mUpdatesReceived' = 0

\* clear() that resets the counters of the cycle but keeps the totals
clearKeepsTotals ==
  /\ mFirstObjectSerialized' = NoTemplate
  /\ mMergedObject' = Monostate
  /\ mCache' = EmptyCache
  /\ mCyclesSinceReset' = 0
  /\ mObjectsMerged' = 0
  /\ mUpdatesReceived' = 0
  /\ UNCHANGED <<mTotalObjectsMerged, mTotalUpdatesReceived>>

\* clear() that leaves the merged object as it is
clearKeepsMergedObject ==
  /\ mFirstObjectSerialized' = NoTemplate
  /\ UNCHANGED mMergedObject
  /\ mCache' = EmptyCache
  /\ mCyclesSinceReset' = 0
  /\ mTotalObjectsMerged' = 0
  /\ mObjectsMerged' = 0
  /\ mTotalUpdatesReceived' = 0
  /\ mUpdatesReceived' = 0

\* FullHistoryMerger::clear
clear ==
  /\ mFirstObjectSerialized' = NoTemplate
  /\ mMergedObject' = Monostate
  /\ mCache' = EmptyCache
  /\ mCyclesSinceReset' = 0
  /\ mTotalObjectsMerged' = 0
  /\ mObjectsMerged' = 0
  /\ mTotalUpdatesReceived' = 0
  /\ mUpdatesReceived' = 0

\* what the history variables record of a clear()
clearHistory ==
  /\ sent' = NothingSent
  /\ latest' = NothingLatest
  /\ overwritten' = {}
  /\ tickPublishes' = 0
  /\ cycleSent' = {}
  /\ taken' = 0
  /\ firstSender' = NoSource
  /\ lastMerge' = NoMerge
  /\ pre' = [called |-> TRUE,
             first |-> mFirstObjectSerialized.first,
             cached |-> Cardinality(DOMAIN mCache),
             merged |-> mMergedObject.alt,
             cycles |-> mCyclesSinceReset,
             publishes |-> tickPublishes,
             updates |-> mUpdatesReceived,
             totalObjects |-> mTotalObjectsMerged,
             totalUpdates |-> mTotalUpdatesReceived]

\* every update replaces the first object
IsFirstObjectAlways(first, sourceID) == TRUE

\* the first object is replaced only when there is none
IsFirstObjectOnlyWhenEmpty(first, sourceID) == first = NoSource

\* updateCache: the update goes to the serialized first object
IsFirstObject(first, sourceID) == first = NoSource \/ first = sourceID

\* a cache entry that absorbs the new object instead of being replaced by it
CacheStoreAccumulates(cache, sourceID, obj) ==
  [s \in DOMAIN cache \cup {sourceID} |->
     IF s # sourceID THEN cache[s]
     ELSE IF sourceID \in DOMAIN cache /\ cache[sourceID].alt = obj.alt
       THEN MergeObjects(cache[sourceID], obj)
       ELSE obj]

\* updateCache: mCache[sourceID] = extracted object
CacheStore(cache, sourceID, obj) ==
  [s \in DOMAIN cache \cup {sourceID} |-> IF s = sourceID THEN obj ELSE cache[s]]

\* FullHistoryMerger::updateCache
updateCache(firstSer, cache, ref) ==
  LET sourceID == SourceID(ref.dh) IN
  IF IsFirstObject(firstSer.first, sourceID)
    THEN [first |-> [first |-> sourceID, payload |-> ref.payload],
          cache |-> cache, thrown |-> FALSE]
    ELSE IF ExtractThrows(ref.payload)
      THEN [first |-> firstSer, cache |-> cache, thrown |-> TRUE]
      ELSE [first |-> firstSer,
            cache |-> CacheStore(cache, sourceID, extractObjectFrom(ref.payload)),
            thrown |-> FALSE]

\* mergeCache: what one cache entry adds to mObjectsMerged
EntryCount(target) ==
  IF target.alt = "VectorOfTObjectPtrs" THEN Len(target.val) ELSE 1

\* the first object is not counted
FirstCountNone(target) == 0

\* mergeCache: what the first object adds to mObjectsMerged
FirstCount(target) == 1

\* the loop over mCache that passes over an entry of another alternative
RECURSIVE mergeLoopSkipsMismatch(_, _, _)
mergeLoopSkipsMismatch(target, objectsMerged, entries) ==
  IF entries = <<>>
    THEN [merged |-> target, objectsMerged |-> objectsMerged, thrown |-> FALSE]
    ELSE IF Head(entries).alt # target.alt
      THEN mergeLoopSkipsMismatch(target, objectsMerged, Tail(entries))
      ELSE mergeLoopSkipsMismatch(MergeObjects(target, Head(entries)),
                                  objectsMerged + EntryCount(target), Tail(entries))

\* mergeCache: the loop over mCache; std::get throws on another alternative
RECURSIVE mergeLoop(_, _, _)
mergeLoop(target, objectsMerged, entries) ==
  IF entries = <<>>
    THEN [merged |-> target, objectsMerged |-> objectsMerged, thrown |-> FALSE]
    ELSE IF Head(entries).alt # target.alt
      THEN [merged |-> target, objectsMerged |-> objectsMerged, thrown |-> TRUE]
      ELSE mergeLoop(MergeObjects(target, Head(entries)),
                     objectsMerged + EntryCount(target), Tail(entries))

\* mergeCache() that goes on with the previous merged object when there is one
mergeCacheReusesMerged(firstSer, merged, objectsMerged, entries) ==
  IF firstSer.payload.kind = "nullptr"
    THEN [merged |-> merged, objectsMerged |-> objectsMerged, thrown |-> FALSE]
    ELSE IF ExtractThrows(firstSer.payload)
      THEN [merged |-> merged, objectsMerged |-> objectsMerged, thrown |-> TRUE]
      ELSE LET target == IF merged.alt # "monostate" THEN merged
                         ELSE extractObjectFrom(firstSer.payload) IN
           mergeLoop(target, objectsMerged + FirstCount(target), entries)

\* FullHistoryMerger::mergeCache, the entries of mCache taken in the given order
mergeCache(firstSer, merged, objectsMerged, entries) ==
  IF firstSer.payload.kind = "nullptr"
    THEN [merged |-> merged, objectsMerged |-> objectsMerged, thrown |-> FALSE]
    ELSE IF ExtractThrows(firstSer.payload)
      THEN [merged |-> merged, objectsMerged |-> objectsMerged, thrown |-> TRUE]
      ELSE LET target == extractObjectFrom(firstSer.payload) IN
           mergeLoop(target, objectsMerged + FirstCount(target), entries)

\* the iteration orders of mCache
Orders(S) ==
  { o \in [1..Cardinality(S) -> S] : \A i, j \in 1..Cardinality(S) : i # j => o[i] # o[j] }

\* the timer branch entered without a first object
TimerBranchWithoutObject(valid, first) == valid

\* run: the condition of the timer branch
TimerBranch(valid, first) == valid /\ first # NoSource

\* the policy that clears for NCycles only
ShouldClearNCyclesOnly(timespan, cycles) ==
  timespan.value = "NCycles" /\ timespan.param = cycles

\* the NCycles policy without the comparison of the cycle count
ShouldClearEveryCycle(timespan, cycles) ==
  timespan.value \in {"LastDifference", "NCycles"}

\* run: the condition under which the state is cleared after a publication
ShouldClear(timespan, cycles) ==
  \/ timespan.value = "LastDifference"
  \/ timespan.value = "NCycles" /\ timespan.param = cycles

\* the metrics publish() sends, computed from the updated totals
Metrics(totalObjects, objects, totalUpdates, updates, cycles) ==
  [total_objects_merged |-> totalObjects,
   objects_merged_since_last_publication |-> objects,
   total_updates_received |-> totalUpdates,
   updates_received_since_last_publication |-> updates,
   cycles_since_reset |-> cycles]

(* ---------------- the handlers, step by step ---------------- *)

\* a Start callback that only resets the cycle count, as init() itself does
StartResetsCyclesOnly ==
  /\ pc \in {"idle", "stopped"}
  /\ mCyclesSinceReset' = 0
  /\ pre' = [called |-> FALSE,
             first |-> mFirstObjectSerialized.first,
             cached |-> Cardinality(DOMAIN mCache),
             merged |-> mMergedObject.alt,
             cycles |-> mCyclesSinceReset]
  /\ pc' = "idle"
  /\ outputs' = <<>>
  /\ metrics' = <<>>
  /\ lastOp' = "Start"
  /\ UNCHANGED <<mConfig, timerValid, store, mMergedObject, mObjectsMerged,
                 mUpdatesReceived, mTotalObjectsMerged, mTotalUpdatesReceived,
                 sent, latest, overwritten, tickPublishes, ghosts>>

\* the Start callback set in init(): clear()
Start ==
  /\ pc \in {"idle", "stopped"}
  /\ clear
  /\ clearHistory
  /\ pc' = "idle"
  /\ outputs' = <<>>
  /\ metrics' = <<>>
  /\ lastOp' = "Start"
  /\ UNCHANGED <<mConfig, timerValid>>

\* run() is called with an input record, with or without a valid timer input
RunStart ==
  /\ pc = "idle"
  /\ timerValid' \in BOOLEAN
  /\ pc' = "walk"
  /\ outputs' = <<>>
  /\ metrics' = <<>>
  /\ lastOp' = "RunStart"
  /\ pre' = NoPre
  /\ UNCHANGED <<mConfig, store, mMergedObject, counters,
                 sent, latest, overwritten, tickPublishes, ghosts>>

\* run: one data input of the record: updateCache(ref); mUpdatesReceived++
RunUpdate(ref) ==
  /\ pc = "walk"
  /\ mTotalUpdatesReceived + mUpdatesReceived < MaxUpdates
  /\ LET r == updateCache(mFirstObjectSerialized, mCache, ref)
         sourceID == SourceID(ref.dh)
     IN /\ mFirstObjectSerialized' = r.first
        /\ mCache' = r.cache
        /\ IF r.thrown
             THEN \* the exception of extractObjectFrom leaves run()
                  /\ pc' = "crashed"
                  /\ lastOp' = "RunUpdateDecodeFailure"
                  /\ UNCHANGED <<mUpdatesReceived, sent, latest, overwritten, ghosts>>
             ELSE /\ pc' = "walk"
                  /\ lastOp' = "RunUpdate"
                  /\ mUpdatesReceived' = mUpdatesReceived + 1
                  /\ sent' = [sent EXCEPT ![sourceID] = IF @ < 2 THEN @ + 1 ELSE 2]
                  /\ latest' = [latest EXCEPT ![sourceID] = ref.payload]
                  /\ cycleSent' = cycleSent \cup {sourceID}
                  /\ taken' = taken + 1
                  /\ firstSender' = IF firstSender = NoSource THEN sourceID ELSE firstSender
                  /\ lastMerge' = NoMerge
                  /\ overwritten' =
                       IF latest[sourceID].kind # "nullptr" /\ ~SamePayload(latest[sourceID], ref.payload)
                         THEN overwritten \cup
                                {IF mFirstObjectSerialized.first = sourceID
                                   THEN "template" ELSE "cache"}
                         ELSE overwritten
  /\ pre' = NoPre
  /\ UNCHANGED <<mConfig, mMergedObject, mCyclesSinceReset, mObjectsMerged,
                 mTotalObjectsMerged, mTotalUpdatesReceived, timerValid,
                 outputs, metrics, tickPublishes>>

\* the timer branch that does not count the cycle before merging
RunTimerWithoutIncrement ==
  /\ pc = "walk"
  /\ IF TimerBranch(timerValid, mFirstObjectSerialized.first)
       THEN /\ UNCHANGED mCyclesSinceReset
            /\ pc' = "run_merge"
       ELSE /\ UNCHANGED mCyclesSinceReset
            /\ pc' = "idle"
  /\ lastOp' = "RunTimer"
  /\ pre' = NoPre
  /\ UNCHANGED <<mConfig, store, mMergedObject, mObjectsMerged, mUpdatesReceived,
                 mTotalObjectsMerged, mTotalUpdatesReceived, timerValid,
                 outputs, metrics, sent, latest, overwritten, tickPublishes, ghosts>>

\* run: after the loop over the inputs, the timer branch is entered or not
RunTimer ==
  /\ pc = "walk"
  /\ IF TimerBranch(timerValid, mFirstObjectSerialized.first)
       THEN /\ mCyclesSinceReset' = mCyclesSinceReset + 1
            /\ pc' = "run_merge"
       ELSE /\ UNCHANGED mCyclesSinceReset
            /\ pc' = "idle"
  /\ lastOp' = "RunTimer"
  /\ pre' = NoPre
  /\ UNCHANGED <<mConfig, store, mMergedObject, mObjectsMerged, mUpdatesReceived,
                 mTotalObjectsMerged, mTotalUpdatesReceived, timerValid,
                 outputs, metrics, sent, latest, overwritten, tickPublishes, ghosts>>

\* endOfStream() that publishes without merging
EndOfStreamWithoutMerge ==
  /\ pc = "idle"
  /\ pc' = "eos_publish"
  /\ outputs' = <<>>
  /\ metrics' = <<>>
  /\ lastOp' = "EndOfStream"
  /\ pre' = NoPre
  /\ UNCHANGED <<mConfig, store, mMergedObject, counters, timerValid,
                 sent, latest, overwritten, tickPublishes, ghosts>>

\* endOfStream() that counts a cycle as the timer branch of run() does
EndOfStreamCountsCycle ==
  /\ pc = "idle"
  /\ pc' = "eos_merge"
  /\ outputs' = <<>>
  /\ metrics' = <<>>
  /\ lastOp' = "EndOfStream"
  /\ pre' = NoPre
  /\ mCyclesSinceReset' = mCyclesSinceReset + 1
  /\ UNCHANGED <<mConfig, store, mMergedObject, mObjectsMerged, mUpdatesReceived,
                 mTotalObjectsMerged, mTotalUpdatesReceived, timerValid,
                 sent, latest, overwritten, tickPublishes, ghosts>>

\* endOfStream() is called
EndOfStream ==
  /\ pc = "idle"
  /\ pc' = "eos_merge"
  /\ outputs' = <<>>
  /\ metrics' = <<>>
  /\ lastOp' = "EndOfStream"
  /\ pre' = NoPre
  /\ UNCHANGED <<mConfig, store, mMergedObject, counters, timerValid,
                 sent, latest, overwritten, tickPublishes, ghosts>>

\* mergeCache() that takes the merged entries out of the cache
MergeCacheDrainsCache ==
  /\ pc \in {"run_merge", "eos_merge"}
  /\ \E order \in Orders(DOMAIN mCache) :
       LET entries == [i \in 1..Len(order) |-> mCache[order[i]]]
           r == mergeCache(mFirstObjectSerialized, mMergedObject, mObjectsMerged, entries)
       IN /\ mMergedObject' = r.merged
          /\ mObjectsMerged' = r.objectsMerged
          /\ lastMerge' = IF r.thrown THEN lastMerge
                          ELSE [done |-> TRUE, merged |-> r.merged,
                                objectsMerged |-> r.objectsMerged]
          /\ mCache' = IF r.thrown THEN mCache ELSE EmptyCache
          /\ pc' = IF r.thrown THEN "crashed"
                   ELSE IF pc = "run_merge" THEN "run_publish" ELSE "eos_publish"
  /\ lastOp' = "MergeCache"
  /\ pre' = NoPre
  /\ UNCHANGED <<mConfig, mFirstObjectSerialized, mCyclesSinceReset, mUpdatesReceived,
                 mTotalObjectsMerged, mTotalUpdatesReceived, timerValid,
                 outputs, metrics, sent, latest, overwritten, tickPublishes,
                 cycleSent, taken, firstSender>>

\* run, endOfStream: mergeCache()
MergeCache ==
  /\ pc \in {"run_merge", "eos_merge"}
  /\ \E order \in Orders(DOMAIN mCache) :
       LET entries == [i \in 1..Len(order) |-> mCache[order[i]]]
           r == mergeCache(mFirstObjectSerialized, mMergedObject, mObjectsMerged, entries)
       IN /\ mMergedObject' = r.merged
          /\ mObjectsMerged' = r.objectsMerged
          /\ lastMerge' = IF r.thrown THEN lastMerge
                          ELSE [done |-> TRUE, merged |-> r.merged,
                                objectsMerged |-> r.objectsMerged]
          /\ pc' = IF r.thrown THEN "crashed"
                   ELSE IF pc = "run_merge" THEN "run_publish" ELSE "eos_publish"
  /\ lastOp' = "MergeCache"
  /\ pre' = NoPre
  /\ UNCHANGED <<mConfig, store, mCyclesSinceReset, mUpdatesReceived,
                 mTotalObjectsMerged, mTotalUpdatesReceived, timerValid,
                 outputs, metrics, sent, latest, overwritten, tickPublishes,
                 cycleSent, taken, firstSender>>

\* publish() that zeroes the counters of the cycle before adding them to the totals
PublishResetsBeforeAdding ==
  /\ pc \in {"run_publish", "eos_publish"}
  /\ \E handedOver \in snapshot(mMergedObject) :
       IF mMergedObject.alt # "monostate" /\ ~handedOver
         THEN \* throw std::runtime_error
              /\ pc' = "crashed"
              /\ lastOp' = "PublishFailedHandoff"
              /\ UNCHANGED <<mObjectsMerged, mUpdatesReceived, mTotalObjectsMerged,
                             mTotalUpdatesReceived, outputs, metrics, tickPublishes,
                             cycleSent>>
         ELSE /\ outputs' = IF mMergedObject.alt = "monostate"
                              THEN outputs ELSE Append(outputs, mMergedObject)
              /\ tickPublishes' = IF mMergedObject.alt # "monostate" /\ pc = "run_publish"
                                    THEN tickPublishes + 1 ELSE tickPublishes
              /\ mTotalObjectsMerged' = mTotalObjectsMerged + 0
              /\ mTotalUpdatesReceived' = mTotalUpdatesReceived + 0
              /\ metrics' = Append(metrics,
                   Metrics(mTotalObjectsMerged', mObjectsMerged,
                           mTotalUpdatesReceived', mUpdatesReceived, mCyclesSinceReset))
              /\ mObjectsMerged' = 0
              /\ mUpdatesReceived' = 0
              /\ cycleSent' = {}
              /\ lastOp' = "Publish"
              /\ pc' = IF pc = "run_publish" THEN "run_policy" ELSE "stopped"
  /\ pre' = NoPre
  /\ UNCHANGED <<mConfig, store, mMergedObject, mCyclesSinceReset, timerValid,
                 sent, latest, overwritten, taken, firstSender, lastMerge>>

\* publish() that goes on after a failed handoff as after an empty merged object
PublishIgnoresFailure ==
  /\ pc \in {"run_publish", "eos_publish"}
  /\ \E handedOver \in snapshot(mMergedObject) :
       LET published == mMergedObject.alt # "monostate" /\ handedOver IN
              /\ outputs' = IF published THEN Append(outputs, mMergedObject) ELSE outputs
              /\ tickPublishes' = IF published /\ pc = "run_publish"
                                    THEN tickPublishes + 1 ELSE tickPublishes
              /\ mTotalObjectsMerged' = mTotalObjectsMerged + mObjectsMerged
              /\ mTotalUpdatesReceived' = mTotalUpdatesReceived + mUpdatesReceived
              /\ metrics' = Append(metrics,
                   Metrics(mTotalObjectsMerged', mObjectsMerged,
                           mTotalUpdatesReceived', mUpdatesReceived, mCyclesSinceReset))
              /\ mObjectsMerged' = 0
              /\ mUpdatesReceived' = 0
              /\ cycleSent' = {}
              /\ lastOp' = IF published \/ mMergedObject.alt = "monostate"
                            THEN "Publish" ELSE "PublishFailedHandoff"
              /\ pc' = IF pc = "run_publish" THEN "run_policy" ELSE "stopped"
  /\ pre' = NoPre
  /\ UNCHANGED <<mConfig, store, mMergedObject, mCyclesSinceReset, timerValid,
                 sent, latest, overwritten, taken, firstSender, lastMerge>>

\* run, endOfStream: publish()
Publish ==
  /\ pc \in {"run_publish", "eos_publish"}
  /\ \E handedOver \in snapshot(mMergedObject) :
       IF mMergedObject.alt # "monostate" /\ ~handedOver
         THEN \* throw std::runtime_error
              /\ pc' = "crashed"
              /\ lastOp' = "PublishFailedHandoff"
              /\ UNCHANGED <<mObjectsMerged, mUpdatesReceived, mTotalObjectsMerged,
                             mTotalUpdatesReceived, outputs, metrics, tickPublishes,
                             cycleSent>>
         ELSE /\ outputs' = IF mMergedObject.alt = "monostate"
                              THEN outputs ELSE Append(outputs, mMergedObject)
              /\ tickPublishes' = IF mMergedObject.alt # "monostate" /\ pc = "run_publish"
                                    THEN tickPublishes + 1 ELSE tickPublishes
              /\ mTotalObjectsMerged' = mTotalObjectsMerged + mObjectsMerged
              /\ mTotalUpdatesReceived' = mTotalUpdatesReceived + mUpdatesReceived
              /\ metrics' = Append(metrics,
                   Metrics(mTotalObjectsMerged', mObjectsMerged,
                           mTotalUpdatesReceived', mUpdatesReceived, mCyclesSinceReset))
              /\ mObjectsMerged' = 0
              /\ mUpdatesReceived' = 0
              /\ cycleSent' = {}
              /\ lastOp' = "Publish"
              /\ pc' = IF pc = "run_publish" THEN "run_policy" ELSE "stopped"
  /\ pre' = NoPre
  /\ UNCHANGED <<mConfig, store, mMergedObject, mCyclesSinceReset, timerValid,
                 sent, latest, overwritten, taken, firstSender, lastMerge>>

\* run: the retention policy after the publication
Policy ==
  /\ pc = "run_policy"
  /\ IF ShouldClear(mConfig, mCyclesSinceReset)
       THEN clear /\ clearHistory
       ELSE /\ UNCHANGED <<store, mMergedObject, counters,
                           sent, latest, overwritten, tickPublishes, ghosts>>
            /\ pre' = NoPre
  /\ pc' = "idle"
  /\ lastOp' = "Policy"
  /\ UNCHANGED <<mConfig, timerValid, outputs, metrics>>

Next ==
  \/ Start
  \/ RunStart
  \/ \E ref \in DataRefs : RunUpdate(ref)
  \/ RunTimer
  \/ EndOfStream
  \/ MergeCache
  \/ Publish
  \/ Policy

Spec == Init /\ [][Next]_vars

(* ---------------- vocabulary of the properties ---------------- *)

\* the handler has run mergeCache() and is about to run publish()
AfterMerge == pc \in {"run_publish", "eos_publish"}

\* the sources that sent an update since the last clear
Senders == { s \in Sources : sent[s] > 0 }

\* the sources held by the store: the first object's and the cached ones
Stored ==
  (IF mFirstObjectSerialized.first = NoSource THEN {} ELSE {mFirstObjectSerialized.first})
    \cup DOMAIN mCache

\* the payload kinds combined by a merge function into one object
Singletons == {"TObject", "MergeInterface"}
SingletonAlts == {"TObjectPtr", "MergeInterfacePtr"}

RECURSIVE SumOver(_, _)
SumOver(S, f) ==
  IF S = {} THEN 0
  ELSE LET s == CHOOSE x \in S : TRUE IN f[s].val + SumOver(S \ {s}, f)

\* the sum of the values the store holds
StoreSum == mFirstObjectSerialized.payload.val + SumOver(DOMAIN mCache, mCache)

\* the state clear() leaves
Cleared ==
  /\ mFirstObjectSerialized.first = NoSource
  /\ mFirstObjectSerialized.payload.kind = "nullptr"
  /\ DOMAIN mCache = {}
  /\ mCyclesSinceReset = 0
  /\ mObjectsMerged = 0
  /\ mUpdatesReceived = 0
  /\ mTotalObjectsMerged = 0
  /\ mTotalUpdatesReceived = 0

(* ---------------- properties ---------------- *)

\* C1: from a cleared instance, when N >= 1 distinct sources each sent exactly
\* one update of a singleton kind and mergeCache() has run, mObjectsMerged = N
\* and mUpdatesReceived = N.
C1_OneUpdatePerOrigin ==
  (/\ AfterMerge
   /\ tickPublishes = 0
   /\ Senders # {}
   /\ \A s \in Senders : sent[s] = 1 /\ latest[s].kind \in Singletons)
  => /\ mObjectsMerged = Cardinality(Senders)
     /\ mUpdatesReceived = Cardinality(Senders)

C1_Witness ==
  /\ pc = "run_publish"
  /\ tickPublishes = 0
  /\ Senders = Sources
  /\ \A s \in Sources : sent[s] = 1 /\ latest[s].kind \in Singletons
  /\ mObjectsMerged = 3

\* C2: for singleton payloads the object published at a tick is the sum of the
\* values the store holds; three sources sending 1 each give 3 with 3 objects
\* merged and 3 updates received, and under NCycles(1) the store is empty
\* right after the tick.
C2_MergedIsSumOfStore ==
  /\ (pc = "run_policy" /\ mMergedObject.alt \in SingletonAlts)
       => /\ Len(outputs) = 1
          /\ outputs[1].val = StoreSum
  /\ (/\ pc = "run_policy"
      /\ tickPublishes = 1
          /\ \A s \in Sources :
           sent[s] = 1 /\ latest[s].kind = "TObject" /\ latest[s].val = 1)
       => /\ outputs[1].val = 3
          /\ metrics[1].objects_merged_since_last_publication = 3
          /\ metrics[1].updates_received_since_last_publication = 3
  /\ (lastOp = "Policy" /\ mConfig = [value |-> "NCycles", param |-> 1])
       => mFirstObjectSerialized.first = NoSource /\ DOMAIN mCache = {}

C2_Witness ==
  /\ lastOp = "Policy"
  /\ mConfig = [value |-> "NCycles", param |-> 1]
  /\ Len(outputs) = 1
  /\ outputs[1].alt = "TObjectPtr"
  /\ outputs[1].val = 3
  /\ metrics[1].updates_received_since_last_publication = 3
  /\ pre.called /\ pre.cached = 2

\* C3: the store holds, for every source, only the last payload that source
\* sent since the last clear, and the object published at a tick is the sum of
\* those last payloads.
C3_LastWriteWins ==
  /\ \A s \in Sources :
       /\ s = mFirstObjectSerialized.first
            => SamePayload(mFirstObjectSerialized.payload, latest[s])
       /\ s \in DOMAIN mCache => SameObject(mCache[s], extractObjectFrom(latest[s]))
  /\ (pc = "run_policy" /\ mMergedObject.alt \in SingletonAlts)
       => outputs[1].val = SumOver(Senders, latest)

C3_Witness ==
  /\ pc = "run_policy"
  /\ tickPublishes = 1
  /\ overwritten = {"template", "cache"}
  /\ mMergedObject.alt = "TObjectPtr"
  /\ Len(outputs) = 1

\* C4: under NCycles(k) the policy step of run() clears the state exactly when
\* k merged objects were published by ticks since the last clear; then the
\* store is empty and mCyclesSinceReset is 0.
C4_NCyclesClearsAfterK ==
  mConfig.value = "NCycles" =>
    /\ tickPublishes <= mConfig.param
    /\ lastOp = "Policy" =>
         IF pre.called
           THEN /\ pre.publishes = mConfig.param
                /\ mFirstObjectSerialized.first = NoSource
                /\ DOMAIN mCache = {}
                /\ mCyclesSinceReset = 0
           ELSE /\ tickPublishes < mConfig.param
                /\ mFirstObjectSerialized.first # NoSource
                /\ mCyclesSinceReset = tickPublishes

C4_Witness ==
  /\ lastOp = "Policy"
  /\ mConfig = [value |-> "NCycles", param |-> 2]
  /\ pre.called
  /\ pre.publishes = 2
  /\ pre.cached > 0

\* C5: every clear(), whatever the state it is called in, leaves no first
\* object, an empty cache and the five counters at zero.
C5_ClearZeroesAll ==
  pre.called => Cleared

C5_Witness ==
  /\ pre.called
  /\ pre.cached > 0
  /\ pre.cycles > 0
  /\ pre.updates > 0
  /\ pre.totalObjects > 0
  /\ pre.totalUpdates > 0
  /\ Cleared

\* C6: while the store is empty, a step of run() or endOfStream() that takes
\* no update hands no object to the allocator and changes no counter.
C6_EmptyStoreNoEffect ==
  [][(mFirstObjectSerialized.first = NoSource /\ mFirstObjectSerialized'.first = NoSource)
       => (outputs' = <<>> /\ counters' = counters)]_vars

C6_Witness ==
  /\ pc = "stopped"
  /\ lastOp = "Publish"
  /\ mFirstObjectSerialized.first = NoSource
  /\ outputs = <<>>

\* C7: when endOfStream() has returned, it handed exactly one object, the
\* merge of the store, to the allocator if the store held data, and none if
\* the store was empty.
C7_EndOfStreamPublishesOnce ==
  pc = "stopped" =>
    IF mFirstObjectSerialized.first # NoSource
      THEN /\ Len(outputs) = 1
           /\ outputs[1].alt \in SingletonAlts => outputs[1].val = StoreSum
      ELSE outputs = <<>>

C7_Witness ==
  /\ pc = "stopped"
  /\ Len(outputs) = 1
  /\ metrics[1].cycles_since_reset = 1
  /\ metrics[1].updates_received_since_last_publication > 0
  /\ DOMAIN mCache # {}

\* C8: for collections of length L a merge over the first object and M cache
\* entries sets mObjectsMerged to (M+1)*L and the merged collection has length L.
C8_CollectionCountsEveryContribution ==
  (AfterMerge /\ mMergedObject.alt = "VectorOfTObjectPtrs")
    => /\ mObjectsMerged = (Cardinality(DOMAIN mCache) + 1) * Len(mMergedObject.val)
       /\ Len(mMergedObject.val) = Len(mFirstObjectSerialized.payload.val)

\* C9: the Start callback leaves the store empty, no merged object and all
\* counters at zero, whatever the policy and the cycle count.
C9_StartClears ==
  lastOp = "Start" =>
    /\ pre.called
    /\ Cleared
    /\ Stored = {}
    /\ mMergedObject.alt = "monostate"
    /\ pc = "idle"

C9_Witness ==
  /\ lastOp = "Start"
  /\ mConfig = [value |-> "NCycles", param |-> 2]
  /\ pre.cycles = 1
  /\ pre.cached > 0
  /\ pre.merged # "monostate"
  /\ Stored = {}

\* C10: the source of the first object is never a key of the cache.
C10_TemplateNotInCache ==
  mFirstObjectSerialized.first \notin DOMAIN mCache

C10_Witness ==
  /\ mFirstObjectSerialized.first # NoSource
  /\ sent[mFirstObjectSerialized.first] = 2
  /\ Cardinality(DOMAIN mCache) = 2
  /\ tickPublishes = 1

\* C11 as stated: a handler hands at most one object to the allocator, and a
\* tick that ends a cycle in which no update was received hands none.
C11_NoEmissionWithoutUpdates ==
  /\ Len(outputs) <= 1
  /\ (pc = "run_policy" /\ metrics[1].updates_received_since_last_publication = 0)
       => outputs = <<>>

\* C11 amended: a handler hands at most one object to the allocator; a tick
\* hands none when no update was taken since the last clear, and exactly one
\* when the store holds data, also when the cycle brought no new update.
C11_TickEmitsAtMostOnce ==
  /\ Len(outputs) <= 1
  /\ (lastOp = "RunTimer" /\ timerValid /\ taken = 0) => (pc = "idle" /\ outputs = <<>>)
  /\ pc = "run_policy" => (Len(outputs) = 1 /\ taken > 0)

C11_Witness ==
  /\ lastOp = "RunTimer"
  /\ timerValid
  /\ taken = 0
  /\ pc = "idle"
  /\ outputs = <<>>

\* C12 as stated: the merge of a tick works on exactly the sources whose
\* update was taken since the previous publish.
C12_MergesOnlyThisCycle ==
  pc = "run_publish" => Stored = cycleSent

\* C12 amended: the merge of a tick works on exactly the sources whose update
\* was taken since the last clear, each with its last payload, the updates of
\* the cycle that ends included.
C12_MergesSinceLastClear ==
  pc = "run_publish" =>
    /\ Stored = Senders
    /\ cycleSent \subseteq Stored
    /\ mMergedObject.alt \in SingletonAlts => mMergedObject.val = SumOver(Senders, latest)

C12_Witness ==
  /\ pc = "run_publish"
  /\ tickPublishes = 1
  /\ cycleSent # {}
  /\ cycleSent # Stored
  /\ Cardinality(Stored) = 3
  /\ mMergedObject.alt = "TObjectPtr"

\* C13: every publish() that returns adds the counters of the cycle to the
\* totals and zeroes the counters of the cycle, not the totals; the total of
\* updates then equals the number of updates taken since the last clear.
C13_PublishFlushesCounters ==
  [][(AfterMerge /\ pc' \in {"run_policy", "stopped"})
       => /\ mTotalObjectsMerged' = mTotalObjectsMerged + mObjectsMerged
          /\ mTotalUpdatesReceived' = mTotalUpdatesReceived + mUpdatesReceived
          /\ mObjectsMerged' = 0
          /\ mUpdatesReceived' = 0
          /\ mTotalUpdatesReceived' = taken']_vars

C13_Witness ==
  /\ lastOp = "Publish"
  /\ pc = "run_policy"
  /\ tickPublishes = 2
  /\ metrics[1].updates_received_since_last_publication > 0
  /\ metrics[1].total_updates_received > metrics[1].updates_received_since_last_publication
  /\ mTotalUpdatesReceived = metrics[1].total_updates_received
  /\ mTotalObjectsMerged > metrics[1].objects_merged_since_last_publication
  /\ mUpdatesReceived = 0
  /\ mObjectsMerged = 0

\* the first object decodes and a cache entry holds another alternative
Mismatch ==
  /\ mFirstObjectSerialized.payload.kind \notin {"nullptr", "Undecodable"}
  /\ \E s \in DOMAIN mCache :
       mCache[s].alt # extractObjectFrom(mFirstObjectSerialized.payload).alt

\* C14: when a cache entry holds another kind than the first object,
\* mergeCache() throws: the handler ends there, nothing is handed to the
\* allocator, and no object is ever published from such a store.
C14_KindMismatchAborts ==
  /\ (lastOp = "MergeCache" /\ Mismatch)
       => (pc = "crashed" /\ outputs = <<>> /\ metrics = <<>>)
  /\ pc \in {"run_publish", "eos_publish", "run_policy", "stopped"} => ~Mismatch
  /\ outputs # <<>> => ~Mismatch

C14_Witness ==
  /\ pc = "crashed"
  /\ lastOp = "MergeCache"
  /\ Mismatch
  /\ Cardinality(DOMAIN mCache) = 2
  /\ mObjectsMerged = 2
  /\ outputs = <<>>

\* the two configurations C15 compares
LastDifferenceTimespan == [value |-> "LastDifference", param |-> 0]
NCyclesOneTimespan == [value |-> "NCycles", param |-> 1]

\* C15: configured with LastDifference or with NCycles(1), the policy step
\* is always taken with mCyclesSinceReset = 1, where both configurations
\* decide alike, to clear; no other step reads the configuration, so the two
\* instances go through the same states, emissions and metrics.
C15_LastDifferenceIsNCyclesOne ==
  mConfig \in {LastDifferenceTimespan, NCyclesOneTimespan} =>
    /\ pc = "run_policy" =>
         /\ mCyclesSinceReset = 1
         /\ metrics[1].cycles_since_reset = 1
         /\ ShouldClear(LastDifferenceTimespan, mCyclesSinceReset)
              = ShouldClear(NCyclesOneTimespan, mCyclesSinceReset)
         /\ ShouldClear(mConfig, mCyclesSinceReset)
    /\ lastOp = "Policy" => (pre.called /\ Cleared)
    /\ pc \in {"idle", "walk"} => (mCyclesSinceReset = 0 /\ tickPublishes = 0)

C15_Witness ==
  /\ mConfig = LastDifferenceTimespan
  /\ lastOp = "Policy"
  /\ pre.called
  /\ pre.cycles = 1
  /\ pre.cached = 2
  /\ Len(outputs) = 1
  /\ Cleared

\* C16 as stated: under NCycles the cycle count is incremented after the
\* publish step, so the j-th publish since the last clear sends
\* cycles_since_reset = j - 1.
C16_IncrementAfterPublish ==
  mConfig.value = "NCycles" =>
    /\ pc \in {"run_merge", "run_publish"} => mCyclesSinceReset = tickPublishes
    /\ pc = "run_policy" => metrics[1].cycles_since_reset = tickPublishes - 1

\* C16 amended: under NCycles the cycle count is incremented before merge and
\* publish, so the j-th publish since the last clear sends
\* cycles_since_reset = j, and the policy compares that same value with k.
C16_IncrementBeforeMerge ==
  mConfig.value = "NCycles" =>
    /\ pc \in {"run_merge", "run_publish"} => mCyclesSinceReset = tickPublishes + 1
    /\ pc = "run_policy" =>
         /\ metrics[1].cycles_since_reset = tickPublishes
         /\ mCyclesSinceReset = tickPublishes
    /\ (lastOp = "Policy" /\ pre.called) => pre.cycles = mConfig.param
    /\ (lastOp = "Policy" /\ ~pre.called) => mCyclesSinceReset < mConfig.param

C16_Witness ==
  /\ mConfig = [value |-> "NCycles", param |-> 2]
  /\ pc = "run_policy"
  /\ tickPublishes = 2
  /\ metrics[1].cycles_since_reset = 2

\* what a step of mergeCache() leaves as it was
MergeFrame ==
  pc \in {"run_merge", "eos_merge"} =>
    /\ mFirstObjectSerialized' = mFirstObjectSerialized
    /\ DOMAIN mCache' = DOMAIN mCache
    /\ \A s \in DOMAIN mCache : SameObject(mCache'[s], mCache[s])
    /\ mUpdatesReceived' = mUpdatesReceived
    /\ mTotalObjectsMerged' = mTotalObjectsMerged
    /\ mTotalUpdatesReceived' = mTotalUpdatesReceived
    /\ mCyclesSinceReset' = mCyclesSinceReset

\* C17: mergeCache() writes the merged object and mObjectsMerged only: the
\* first object, the keys and the objects of the cache, mUpdatesReceived, the
\* totals and the cycle count are after it what they were before.
C17_MergeReadsOnly == [][MergeFrame]_vars

C17_Witness ==
  /\ lastOp = "MergeCache"
  /\ pc = "run_publish"
  /\ Cardinality(DOMAIN mCache) = 2
  /\ mObjectsMerged = 3
  /\ mMergedObject.alt = "TObjectPtr"
  /\ mMergedObject.val = StoreSum
  /\ mUpdatesReceived > 0
  /\ mTotalUpdatesReceived > 0

\* a step that ends in a failed handoff, and no step after a throw
FailedHandoffStep ==
  /\ pc # "crashed"
  /\ lastOp' = "PublishFailedHandoff" =>
       /\ AfterMerge
       /\ pc' = "crashed"
       /\ mMergedObject.alt # "monostate"
       /\ UNCHANGED <<counters, store, mMergedObject, outputs, metrics>>
       /\ metrics' = <<>>
       /\ outputs' = <<>>

\* C18: when the handoff of a merged object fails, publish() throws: the
\* handler ends there with the totals, the counters of the cycle, the store
\* and the merged object as they were, nothing sent to the collector, and no
\* later step, so no clear() of the policy.
C18_FailedHandoffIsFatal == [][FailedHandoffStep]_vars

C18_Witness ==
  /\ pc = "crashed"
  /\ lastOp = "PublishFailedHandoff"
  /\ mConfig = [value |-> "NCycles", param |-> 2]
  /\ mCyclesSinceReset = 2
  /\ mObjectsMerged > 0
  /\ mUpdatesReceived > 0
  /\ mTotalUpdatesReceived > 0
  /\ metrics = <<>>
  /\ mFirstObjectSerialized.first # NoSource

\* C19: metrics are sent only by a publish() that handed a merged object to
\* the allocator; a publish() of an empty merged object sends nothing.
C19_MetricsOnlyWithObject ==
  /\ metrics # <<>> => outputs # <<>>
  /\ (lastOp = "Publish" /\ mMergedObject.alt = "monostate") => metrics = <<>>

\* C20: the source of the first object is the source of the first update
\* taken since the last clear; the first object holds that source's last
\* payload and every other sender is in the cache.
C20_TemplateIsFirstSender ==
  /\ mFirstObjectSerialized.first = firstSender
  /\ firstSender # NoSource
       => SamePayload(mFirstObjectSerialized.payload, latest[firstSender])
  /\ DOMAIN mCache = Senders \ {firstSender}

C20_Witness ==
  /\ firstSender # NoSource
  /\ mFirstObjectSerialized.first = firstSender
  /\ sent[firstSender] = 1
  /\ Cardinality(DOMAIN mCache) = 2
  /\ "cache" \in overwritten
  /\ tickPublishes = 1

\* C21: after an update whose payload failed to decode, run() goes on with
\* the inputs that follow it, the store being what it was before that update.
C21_DecodeFailureIsSurvived ==
  lastOp = "RunUpdateDecodeFailure" => pc = "walk"

\* the steps of endOfStream(): the call, its mergeCache(), its publish()
EndOfStreamStep ==
  \/ pc = "idle" /\ pc' = "eos_merge"
  \/ pc \in {"eos_merge", "eos_publish"}

\* an endOfStream() step keeps the first object, the cache and the cycle count,
\* and no policy step follows its publish()
EndOfStreamFrame ==
  EndOfStreamStep =>
    /\ UNCHANGED <<mFirstObjectSerialized, mCache, mCyclesSinceReset>>
    /\ pc' \in {"eos_merge", "eos_publish", "stopped", "crashed"}

\* C22: endOfStream() merges and publishes and does nothing after it: it does
\* not increment mCyclesSinceReset and does not apply the policy, so the first
\* object and the cache are after it what they were before, whatever the
\* policy and the cycle count.
C22_EndOfStreamKeepsStore == [][EndOfStreamFrame]_vars

\* an endOfStream() that published the merged object of a first object and two
\* cache entries under a policy that a tick would have cleared them with
C22_Witness ==
  /\ pc = "stopped"
  /\ lastOp = "Publish"
  /\ Len(outputs) = 1
  /\ ShouldClear(mConfig, mCyclesSinceReset + 1)
  /\ mFirstObjectSerialized.first # NoSource
  /\ Cardinality(DOMAIN mCache) = 2

\* C23: whenever no first object is set, the cache is empty, the merged object
\* is std::monostate and the five counters are zero; and the publish() of the
\* timer branch of run() never finds the merged object to be std::monostate.
C23_NoTemplateMeansEmpty ==
  /\ mFirstObjectSerialized.first = NoSource =>
       /\ DOMAIN mCache = {}
       /\ mMergedObject.alt = "monostate"
       /\ mCyclesSinceReset = 0
       /\ mObjectsMerged = 0
       /\ mUpdatesReceived = 0
       /\ mTotalObjectsMerged = 0
       /\ mTotalUpdatesReceived = 0
  /\ pc = "run_publish" => mMergedObject.alt # "monostate"

\* the policy has just cleared an instance that held a first object, cache
\* entries, a merged object and non-zero counters
C23_Witness ==
  /\ lastOp = "Policy"
  /\ pre.called
  /\ pre.cached > 0
  /\ pre.merged # "monostate"
  /\ pre.cycles > 0
  /\ pre.totalUpdates > 0
  /\ pre.totalObjects > 0
  /\ mFirstObjectSerialized.first = NoSource

\* a mergeCache() that follows another one with no update and no clear()
\* between them ends as that one did
RemergeStep ==
  (pc \in {"run_merge", "eos_merge"} /\ lastMerge.done) =>
    /\ pc' # "crashed"
    /\ SameObject(mMergedObject', lastMerge.merged)
    /\ mObjectsMerged' = lastMerge.objectsMerged

\* C24: two merges with no update and no clear() between them (two ticks under
\* NCycles(k >= 2), or a tick and then endOfStream()) give the same merged
\* object and the same mObjectsMerged: the target is deserialized anew from
\* the first object and no contribution is added twice.
C24_RemergeIsIdempotent == [][RemergeStep]_vars

\* endOfStream() has merged again what a tick had merged and published: a
\* first object and two cache entries, no update since that publication
C24_Witness ==
  /\ pc = "eos_publish"
  /\ lastOp = "MergeCache"
  /\ tickPublishes = 1
  /\ cycleSent = {}
  /\ Cardinality(DOMAIN mCache) = 2
  /\ mMergedObject.alt = "TObjectPtr"
  /\ mMergedObject.val = 3
  /\ mObjectsMerged = 3

====
